---- MODULE Spec2Model ----
(***************************************************************************)
(* A model of sumtypes.py: the sumtype/constructor declaration machinery,  *)
(* the variant values attr.s builds for it, and the match / match_partial  *)
(* dispatch functions.                                                     *)
(***************************************************************************)
EXTENDS Integers, Sequences, FiniteSets, TLC

VARIABLES
    registry,       \* sum type name -> what the sumtype decorator left on the class
    heap,           \* the objects constructed so far; an object's identity is its index
    matcher,        \* the dispatch function a decoration produced, if any
    last            \* the last operation performed and its outcome

vars == <<registry, heap, matcher, last>>

----------------------------------------------------------------------------
(* Bounds *)

MaxHeap == 2        \* objects constructed in one run
MaxAtom == 2        \* field values are 1..MaxAtom
HashMod == 2        \* hashes are taken modulo HashMod, so that they collide

(* The universe of the declarations *)

Types == {"T", "U"}                 \* names of the classes decorated with sumtype
CNames == {"A", "B"}                \* names of the constructors in a class body
BodyOrder == <<"A", "B">>           \* order of the statements of a class body
FieldNames == {"x", "y"}
Function == "<function f>"          \* a function object passed where a name is expected
Atoms == 1 .. MaxAtom
Default == "_"                      \* name of the default case of a match class
ObjectAttrs == {"__doc__", "__init__", "__repr__"}   \* what every class inherits

----------------------------------------------------------------------------
(* Sequences *)

Range(s) == {s[i] : i \in DOMAIN s}

RECURSIVE SortByCounter(_)
\* sorted(items, key=lambda item: item[1].counter)
SortByCounter(S) ==
    IF S = {} THEN <<>>
    ELSE LET m == CHOOSE a \in S : \A b \in S : a.counter <= b.counter
         IN  <<m>> \o SortByCounter(S \ {m})

Names(attrs) == [i \in DOMAIN attrs |-> attrs[i].name]

----------------------------------------------------------------------------
(* constructor(): the declaration of one constructor in a class body *)

\* The calls of constructor() a class body may contain: the positional-name
\* form, the keyword form (each attr.ib descriptor with the value of its
\* creation counter), both at once, and a lone function object.
ConstructorCalls ==
    { [attrnames |-> <<>>,         attribs |-> {}],
      [attrnames |-> <<"x">>,      attribs |-> {}],
      [attrnames |-> <<"x", "y">>, attribs |-> {}],
      [attrnames |-> <<>>,         attribs |-> {[name |-> "x", counter |-> 2],
                                                [name |-> "y", counter |-> 1]}],
      [attrnames |-> <<"x">>,      attribs |-> {[name |-> "y", counter |-> 1]}],
      [attrnames |-> <<Function>>, attribs |-> {}] }

\* A class body binds some of the constructor names to constructor() calls.
Bodies(cnames, calls) == UNION {[S -> calls] : S \in SUBSET cnames}

\* constructor() taking the keyword descriptors in the order of their names
constructor_by_name(attrnames, attribs) ==
    IF attribs # {} /\ attrnames # <<>>
    THEN [raised |-> TRUE, attrs |-> <<>>]
    ELSE IF attribs # {}
    THEN [raised |-> FALSE,
          attrs |-> LET names == SelectSeq(<<"x", "y">>,
                                           LAMBDA n : \E a \in attribs : a.name = n)
                    IN  [i \in DOMAIN names |->
                            CHOOSE a \in attribs : a.name = names[i]]]
    ELSE [raised |-> FALSE,
          attrs |-> [i \in DOMAIN attrnames |->
                        [name |-> attrnames[i], counter |-> i]]]

\* constructor() without its check, the names first and the descriptors after
constructor_allows_mix(attrnames, attribs) ==
    [raised |-> FALSE,
     attrs |-> [i \in DOMAIN attrnames |-> [name |-> attrnames[i], counter |-> i]]
               \o SortByCounter({[name |-> a.name, counter |-> a.counter + Len(attrnames)]
                                    : a \in attribs})]

\* the value of constructor(*attrnames, **attribs): a _Constructor holding
\* the (name, descriptor) pairs, or the TypeError it raises
constructor(attrnames, attribs) ==
    IF attribs # {} /\ attrnames # <<>>
    THEN [raised |-> TRUE, attrs |-> <<>>]
    ELSE IF attribs # {}
    THEN [raised |-> FALSE, attrs |-> SortByCounter(attribs)]
    ELSE [raised |-> FALSE,
          attrs |-> [i \in DOMAIN attrnames |->
                        [name |-> attrnames[i], counter |-> i]]]

\* attr.s(t, repr_ns=..., **kwargs): the fields of the generated __init__,
\* __eq__ and __hash__ are the descriptors of the class in counter order; a
\* descriptor bound to something that is not a name cannot be made a field.
attr_s(d) ==
    IF \E a \in d : a.name \notin FieldNames
    THEN [raised |-> TRUE, fields |-> <<>>]
    ELSE [raised |-> FALSE, fields |-> Names(SortByCounter(d))]

\* _make_constructor(name, type_, attrs, kwargs): the type of one constructor
_make_constructor(name, type_, attrs, kwargs) ==
    LET d == Range(attrs)
        t == attr_s(d)
    IN  [raised |-> t.raised,
         name |-> name,
         base |-> type_,
         sumtype_attribs |-> Names(attrs),
         fields |-> t.fields,
         frozen |-> kwargs.frozen]

\* _get_constructors(klass): the _Constructor attributes of the class body
_get_constructors(made) == SelectSeq(BodyOrder, LAMBDA c : c \in DOMAIN made)

\* _real_decorator(klass, kwargs): one type per constructor, then the list
\* of the constructor names on the class
_real_decorator(klass, made, kwargs) ==
    LET cnames == _get_constructors(made)
        new == [c \in DOMAIN made |->
                    _make_constructor(c, klass, made[c].attrs, kwargs)]
    IN  [raised |-> \E c \in DOMAIN made : new[c].raised,
         declared |-> TRUE,
         constructor_names |-> cnames,
         ctors |-> new]

NotDeclared == [declared |-> FALSE]

\* class t, decorated with sumtype (kwargs = {}) or sumtype(frozen=...)
Declare(t, kwargs, body) ==
    /\ ~registry[t].declared
    /\ LET made == [c \in DOMAIN body |->
                        constructor(body[c].attrnames, body[c].attribs)]
           mixes == \E c \in DOMAIN body :
                        body[c].attribs # {} /\ body[c].attrnames # <<>>
           converts == \E c \in DOMAIN body :
                        Function \in Range(body[c].attrnames)
           klass == _real_decorator(t, made, kwargs)
           outcome == IF \E c \in DOMAIN made : made[c].raised THEN "TypeError"
                      ELSE IF klass.raised THEN "AttrsError"
                      ELSE "declared"
       IN  /\ registry' = IF outcome = "declared"
                          THEN [registry EXCEPT ![t] =
                                  [declared |-> TRUE,
                                   constructor_names |-> klass.constructor_names,
                                   ctors |-> klass.ctors]]
                          ELSE registry
           /\ last' = [op |-> "sumtype", outcome |-> outcome, type |-> t,
                       mixes |-> mixes, converts |-> converts]
    /\ UNCHANGED <<heap, matcher>>

----------------------------------------------------------------------------
(* Objects *)

\* An object of a constructor type carries its class, the attributes its
\* __init__ set and (for the properties only) the arguments it was built
\* from.  An object of any other class has base "object" and no attributes.
IsVariant(obj) == obj.cls.base \in Types

ClassOf(obj) == registry[obj.cls.base].ctors[obj.cls.name]

\* an __init__ that drops the arguments it has no field for
attrs_init_lenient(fields, args) ==
    IF Len(args) >= Len(fields)
    THEN [raised |-> FALSE,
          attrs |-> [n \in Range(fields) |->
                        args[CHOOSE i \in DOMAIN fields : fields[i] = n]]]
    ELSE [raised |-> TRUE, attrs |-> <<>>]

\* the __init__ attr.s generates: one required argument per field, in field
\* order, stored as given; anything else is a TypeError and no object
attrs_init(fields, args) ==
    IF Len(args) = Len(fields)
    THEN [raised |-> FALSE,
          attrs |-> [n \in Range(fields) |->
                        args[CHOOSE i \in DOMAIN fields : fields[i] = n]]]
    ELSE [raised |-> TRUE, attrs |-> <<>>]

\* T.C(*args)
Construct(t, c, args) ==
    /\ Len(heap) < MaxHeap
    /\ registry[t].declared
    /\ c \in DOMAIN registry[t].ctors
    /\ LET made == attrs_init(registry[t].ctors[c].fields, args)
       IN  /\ heap' = IF made.raised THEN heap
                      ELSE Append(heap, [cls |-> [base |-> t, name |-> c],
                                         attrs |-> made.attrs,
                                         init_args |-> args])
           /\ last' = [op |-> "construct",
                       outcome |-> IF made.raised THEN "TypeError"
                                   ELSE "constructed",
                       type |-> t, cname |-> c, nargs |-> Len(args)]
    /\ UNCHANGED <<registry, matcher>>

\* an instance of a class that is no constructor type but carries a name
ConstructPlain(name) ==
    /\ Len(heap) < MaxHeap
    /\ heap' = Append(heap, [cls |-> [base |-> "object", name |-> name],
                             attrs |-> <<>>,
                             init_args |-> <<>>])
    /\ last' = [op |-> "construct", outcome |-> "constructed",
                type |-> "object", cname |-> name, nargs |-> 0]
    /\ UNCHANGED <<registry, matcher>>

\* the fields of an object as attr.s sees them, in field order
FieldTuple(obj) ==
    LET fields == ClassOf(obj).fields
    IN  [i \in DOMAIN fields |-> obj.attrs[fields[i]]]

\* an __eq__ that compares the field tuples of any two values
Eq_ignores_class(i, j) ==
    LET a == heap[i]
        b == heap[j]
    IN  IF IsVariant(a) /\ IsVariant(b)
        THEN FieldTuple(a) = FieldTuple(b)
        ELSE i = j

\* a == b for the objects heap[i] and heap[j].  The __eq__ attr.s generates
\* answers NotImplemented unless other.__class__ is self.__class__, and then
\* compares the field tuples; when both sides decline, == is identity.
Eq(i, j) ==
    LET a == heap[i]
        b == heap[j]
    IN  IF IsVariant(a) /\ IsVariant(b) /\ a.cls = b.cls
        THEN FieldTuple(a) = FieldTuple(b)
        ELSE i = j

RECURSIVE HashTuple(_)
\* hash of a tuple of integers
HashTuple(s) ==
    IF s = <<>> THEN 1
    ELSE (3 * HashTuple(SubSeq(s, 1, Len(s) - 1)) + s[Len(s)]) % HashMod

\* what the hash of a class contributes
ClassSalt(cls) ==
    (IF cls.base = "T" THEN 0 ELSE 2) + (IF cls.name = "A" THEN 1 ELSE 2)

\* whether hash(heap[i]) is defined: attr.s of a recent attrs (modern) sets
\* __hash__ to None on a class with __eq__ that is not frozen
Hashable(i, modern) ==
    ~IsVariant(heap[i]) \/ ClassOf(heap[i]).frozen \/ ~modern

\* the hash every object has by default, by identity
Hash_by_identity(i, modern) == i % HashMod

\* hash(heap[i]): the __hash__ attr.s generates hashes the field tuple, and
\* in a recent attrs (modern) a per-class salt before it; other objects hash
\* by identity
Hash(i, modern) ==
    IF IsVariant(heap[i])
    THEN HashTuple((IF modern THEN <<ClassSalt(heap[i].cls)>> ELSE <<>>)
                   \o FieldTuple(heap[i]))
    ELSE i % HashMod

\* heap[i] == heap[j]
Compare(i, j) ==
    /\ last' = [op |-> "eq", a |-> i, b |-> j, result |-> Eq(i, j)]
    /\ UNCHANGED <<registry, heap, matcher>>

\* heap[j] in {heap[i]: 'foo'}
Lookup(i, j, modern) ==
    /\ LET hash_key == Hash(i, modern)
           hash_probe == Hash(j, modern)
       IN  last' = IF Hashable(i, modern) /\ Hashable(j, modern)
                   THEN [op |-> "lookup", outcome |-> "looked up",
                         a |-> i, b |-> j,
                         hash_key |-> hash_key,
                         hash_probe |-> hash_probe,
                         found |-> /\ hash_key = hash_probe
                                   /\ (i = j \/ Eq(j, i))]
                   ELSE [op |-> "lookup", outcome |-> "TypeError",
                         a |-> i, b |-> j]
    /\ UNCHANGED <<registry, heap, matcher>>

----------------------------------------------------------------------------
(* match, match_partial and the dispatch function *)

None == "None"
Atom(v) == [k |-> "atom", v |-> v]          \* a field value as an argument
Ref(i) == [k |-> "obj", v |-> i]            \* the object heap[i] as an argument

\* The class a matcher decorates is given by the names of its methods.  The
\* method named n returns its own name and the arguments it was called with.
Cases == SUBSET (CNames \cup {Default})

Handler(n, args) == [by |-> n, args |-> args]

dir(klass) == klass \cup ObjectAttrs

\* getattr(klass, name, None)
getattr(klass, name) ==
    IF name \in klass \cup (ObjectAttrs \ {"__doc__"}) THEN name ELSE None

\* _get_attrs(obj): the generator reads obj._sumtype_attribs when it is
\* created, and each attribute when the handler is called
_get_attrs(obj) ==
    LET names == ClassOf(obj).sumtype_attribs
    IN  [i \in DOMAIN names |-> Atom(obj.attrs[names[i]])]

\* run() without the fallback to the method _
run_skips_default(klass, i) ==
    LET value == heap[i]
        cname == value.cls.name
        handler == getattr(klass, cname)
    IN  IF ~IsVariant(value)
        THEN [outcome |-> "AttributeError"]
        ELSE IF handler # None
        THEN [outcome |-> "returned", handler |-> handler,
              args |-> _get_attrs(value),
              result |-> Handler(handler, _get_attrs(value))]
        ELSE [outcome |-> "PartialMatchError", unhandled_cases |-> <<cname>>]

\* run() calling the method _ with the fields of the value
run_unpacks_for_default(klass, i) ==
    LET value == heap[i]
        cname == value.cls.name
        handler == getattr(klass, cname)
        default == getattr(klass, Default)
    IN  IF ~IsVariant(value)
        THEN [outcome |-> "AttributeError"]
        ELSE IF handler # None
        THEN [outcome |-> "returned", handler |-> handler,
              args |-> _get_attrs(value),
              result |-> Handler(handler, _get_attrs(value))]
        ELSE IF default # None
        THEN [outcome |-> "returned", handler |-> default,
              args |-> _get_attrs(value),
              result |-> Handler(default, _get_attrs(value))]
        ELSE [outcome |-> "PartialMatchError", unhandled_cases |-> <<cname>>]

\* run() refusing the values of another sum type than the decorator was given
run_checks_adt(klass, i) ==
    LET value == heap[i]
        cname == value.cls.name
        handler == getattr(klass, cname)
        default == getattr(klass, Default)
    IN  IF ~IsVariant(value)
        THEN [outcome |-> "AttributeError"]
        ELSE IF value.cls.base # matcher.adt
        THEN [outcome |-> "PartialMatchError", unhandled_cases |-> <<cname>>]
        ELSE IF handler # None
        THEN [outcome |-> "returned", handler |-> handler,
              args |-> _get_attrs(value),
              result |-> Handler(handler, _get_attrs(value))]
        ELSE IF default # None
        THEN [outcome |-> "returned", handler |-> default,
              args |-> <<Ref(i)>>,
              result |-> Handler(default, <<Ref(i)>>)]
        ELSE [outcome |-> "PartialMatchError", unhandled_cases |-> <<cname>>]

\* run(value), the function _matchit(klass) returns, on the object heap[i]
run(klass, i) ==
    LET value == heap[i]
        cname == value.cls.name
        handler == getattr(klass, cname)
        default == getattr(klass, Default)
    IN  IF ~IsVariant(value)
        THEN [outcome |-> "AttributeError"]
        ELSE IF handler # None
        THEN [outcome |-> "returned", handler |-> handler,
              args |-> _get_attrs(value),
              result |-> Handler(handler, _get_attrs(value))]
        ELSE IF default # None
        THEN [outcome |-> "returned", handler |-> default,
              args |-> <<Ref(i)>>,
              result |-> Handler(default, <<Ref(i)>>)]
        ELSE [outcome |-> "PartialMatchError", unhandled_cases |-> <<cname>>]

\* matchit() with the set difference the wrong way round
matchit_reversed_difference(adt, klass) ==
    LET klass_attrs == dir(klass)
        constructor_names == Range(registry[adt].constructor_names)
        unhandled == klass_attrs \ constructor_names
    IN  IF unhandled # {} /\ Default \notin klass_attrs
        THEN [raised |-> TRUE, unhandled_cases |-> unhandled]
        ELSE [raised |-> FALSE, unhandled_cases |-> {}]

\* matchit() raising only when no constructor at all has a method
matchit_all_unhandled(adt, klass) ==
    LET klass_attrs == dir(klass)
        constructor_names == Range(registry[adt].constructor_names)
        unhandled == constructor_names \ klass_attrs
    IN  IF unhandled # {} /\ unhandled = constructor_names /\ Default \notin klass_attrs
        THEN [raised |-> TRUE, unhandled_cases |-> unhandled]
        ELSE [raised |-> FALSE, unhandled_cases |-> {}]

\* matchit(klass), the decorator match(adt) returns
matchit(adt, klass) ==
    LET klass_attrs == dir(klass)
        constructor_names == Range(registry[adt].constructor_names)
        unhandled == constructor_names \ klass_attrs
    IN  IF unhandled # {} /\ Default \notin klass_attrs
        THEN [raised |-> TRUE, unhandled_cases |-> unhandled]
        ELSE [raised |-> FALSE, unhandled_cases |-> {}]

NoMatcher == [made |-> FALSE]

\* @match(adt) class ...: klass
Match(adt, klass) ==
    /\ matcher = NoMatcher
    /\ registry[adt].declared
    /\ LET m == matchit(adt, klass)
       IN  /\ matcher' = IF m.raised THEN matcher
                         ELSE [made |-> TRUE, klass |-> klass,
                               by |-> "match", adt |-> adt]
           /\ last' = [op |-> "match", adt |-> adt, klass |-> klass,
                       outcome |-> IF m.raised THEN "PartialMatchError"
                                   ELSE "decorated",
                       unhandled_cases |-> m.unhandled_cases]
    /\ UNCHANGED <<registry, heap>>

\* @match_partial(adt) class ...: klass; match_partial returns _matchit
MatchPartial(adt, klass) ==
    /\ matcher = NoMatcher
    /\ registry[adt].declared
    /\ matcher' = [made |-> TRUE, klass |-> klass,
                   by |-> "match_partial", adt |-> adt]
    /\ last' = [op |-> "match_partial", adt |-> adt, klass |-> klass,
                outcome |-> "decorated", unhandled_cases |-> {}]
    /\ UNCHANGED <<registry, heap>>

\* a call of the dispatch function on heap[i]
Dispatch(i) ==
    /\ matcher # NoMatcher
    /\ last' = [op |-> "run", obj |-> i, call |-> run(matcher.klass, i)]
    /\ UNCHANGED <<registry, heap, matcher>>

----------------------------------------------------------------------------
(* Specifications *)

NoOp == [op |-> "none"]

Init ==
    /\ registry = [t \in Types |-> NotDeclared]
    /\ heap = <<>>
    /\ matcher = NoMatcher
    /\ last = NoOp

\* The argument lists of a constructor call.  The program only compares and
\* hashes field values, so the values are numbered in the order in which the
\* run first uses them.
UsedAtoms == UNION {Range(heap[i].init_args) : i \in DOMAIN heap}

InOrderOfUse(used, args) ==
    \A k \in DOMAIN args :
        \A v \in 1 .. args[k] - 1 :
            v \in used \/ \E m \in 1 .. k - 1 : args[m] = v

ArgLists ==
    LET used == UsedAtoms
    IN  {args \in UNION {[1 .. n -> Atoms] : n \in 0 .. 2} : InOrderOfUse(used, args)}

ClassBodies == Bodies(CNames, ConstructorCalls)

\* One sum type, its values, and the dispatch functions over it.
Next ==
    \/ \E body \in ClassBodies :
            Declare("T", [frozen |-> FALSE], body)
    \/ \E c \in CNames, args \in ArgLists : Construct("T", c, args)
    \/ \E klass \in Cases : Match("T", klass)
    \/ \E klass \in Cases : MatchPartial("T", klass)
    \/ \E i \in DOMAIN heap : Dispatch(i)

Spec == Init /\ [][Next]_vars

\* One sum type, frozen or not, and the equality and hashing of its values:
\* any two distinct objects are compared, and looked up one under the other,
\* the older object on the left.
NextValues ==
    \/ \E frozen \in BOOLEAN, body \in ClassBodies :
            Declare("T", [frozen |-> frozen], body)
    \/ \E c \in CNames, args \in ArgLists : Construct("T", c, args)
    \/ \E i, j \in DOMAIN heap : i < j /\ Compare(i, j)
    \/ \E i, j \in DOMAIN heap, modern \in BOOLEAN : i < j /\ Lookup(i, j, modern)

SpecValues == Init /\ [][NextValues]_vars

\* Two sum types whose constructors share their names, objects of a class
\* that is no constructor type, and the dispatch functions over T applied to
\* all of them.
SmallCalls == {c \in ConstructorCalls : c.attrnames \in {<<>>, <<"x">>} /\ c.attribs = {}}
SmallBodies == Bodies(CNames, SmallCalls)

NextForeign ==
    \/ \E t \in Types, body \in SmallBodies :
            Declare(t, [frozen |-> FALSE], body)
    \/ \E t \in Types, c \in CNames, args \in {<<>>, <<1>>} : Construct(t, c, args)
    \/ ConstructPlain("A")
    \/ \E klass \in Cases : Match("T", klass)
    \/ \E klass \in Cases : MatchPartial("T", klass)
    \/ \E i \in DOMAIN heap : Dispatch(i)

SpecForeign == Init /\ [][NextForeign]_vars

----------------------------------------------------------------------------
(* Properties *)

Ran == last.op = "run"
Value == heap[last.obj]                 \* the object last dispatched on
CName == Value.cls.name
Cells(args) == [i \in DOMAIN args |-> Atom(args[i])]
DeclaredNames(t) == Range(registry[t].constructor_names)

\* C1: match(T) on a class that lacks a method for some constructor of T and
\* has no method _ raises PartialMatchError when it decorates, no dispatch
\* function comes of it, and unhandled_cases is exactly the set of the
\* constructor names of T without a method.
C1_MatchRaisesAtDecoration ==
    last.op = "match" =>
        LET missing == DeclaredNames(last.adt) \ last.klass
        IN  (missing # {} /\ Default \notin last.klass) =>
                /\ last.outcome = "PartialMatchError"
                /\ last.unhandled_cases = missing
                /\ matcher = NoMatcher

C1_Witness ==
    /\ last.op = "match"
    /\ last.outcome = "PartialMatchError"
    /\ DeclaredNames(last.adt) = {"A", "B"}
    /\ last.klass = {"A"}
    /\ last.unhandled_cases = {"B"}

\* C2: match_partial(T) never raises when it decorates; its dispatch function
\* returns the result of the method named after the value's constructor when
\* there is one, and raises PartialMatchError exactly when there is neither
\* that method nor a method _, with the one-element payload naming the
\* value's constructor.
C2_PartialMatchIsLazy ==
    /\ last.op = "match_partial" =>
            /\ last.outcome = "decorated"
            /\ matcher.made /\ matcher.klass = last.klass
    /\ (Ran /\ matcher.by = "match_partial" /\ IsVariant(Value)) =>
            /\ CName \in matcher.klass =>
                    /\ last.call.outcome = "returned"
                    /\ last.call.handler = CName
                    /\ last.call.result = Handler(CName, last.call.args)
            /\ last.call.outcome = "PartialMatchError" <=>
                    (CName \notin matcher.klass /\ Default \notin matcher.klass)
            /\ last.call.outcome = "PartialMatchError" =>
                    last.call.unhandled_cases = <<CName>>

C2_Witness ==
    /\ Ran /\ matcher.by = "match_partial"
    /\ matcher.klass = {"A"}
    /\ CName = "B"
    /\ last.call.outcome = "PartialMatchError"
    /\ last.call.unhandled_cases = <<"B">>

\* C3: a dispatch function that match(T) produced never raises
\* PartialMatchError on a value of a constructor of T: the method named after
\* the constructor or the method _ handles it.
C3_MatchIsExhaustive ==
    (Ran /\ matcher.by = "match" /\ Value.cls.base = matcher.adt) =>
        /\ last.call.outcome = "returned"
        /\ last.call.handler \in {CName, Default}

C3_Witness ==
    /\ Ran /\ matcher.by = "match" /\ Value.cls.base = matcher.adt
    /\ DeclaredNames(matcher.adt) = {"A", "B"}
    /\ matcher.klass = {"A", "B"}
    /\ last.call.outcome = "returned"

\* C4: when the class has a method named after the value's constructor, the
\* dispatch function calls it with the value's fields as positional arguments
\* in declared field order and returns its result; a method that returns its
\* arguments returns the arguments the value was constructed with, in order.
C4_HandlerGetsFieldsInOrder ==
    (Ran /\ IsVariant(Value) /\ CName \in matcher.klass) =>
        LET fields == ClassOf(Value).fields
        IN  /\ last.call.outcome = "returned"
            /\ last.call.handler = CName
            /\ last.call.args = [i \in DOMAIN fields |-> Atom(Value.attrs[fields[i]])]
            /\ last.call.result = Handler(CName, last.call.args)
            /\ last.call.result.args = Cells(Value.init_args)

C4_Witness ==
    /\ Ran /\ CName \in matcher.klass
    /\ ClassOf(Value).fields = <<"y", "x">>
    /\ Value.init_args = <<1, 2>>
    /\ last.call.result.args = <<Atom(1), Atom(2)>>

\* C5: when the class has no method named after the value's constructor but
\* has a method _, the dispatch function of match or match_partial calls _
\* with the value itself as the only argument and returns its result, and
\* neither the decoration nor the dispatch raises PartialMatchError.
C5_DefaultGetsWholeValue ==
    /\ (last.op \in {"match", "match_partial"} /\ Default \in last.klass) =>
            last.outcome = "decorated"
    /\ (Ran /\ IsVariant(Value) /\ CName \notin matcher.klass
            /\ Default \in matcher.klass) =>
            /\ last.call.outcome = "returned"
            /\ last.call.handler = Default
            /\ last.call.args = <<Ref(last.obj)>>
            /\ last.call.result = Handler(Default, <<Ref(last.obj)>>)

C5_Witness ==
    /\ Ran /\ CName \notin matcher.klass /\ Default \in matcher.klass
    /\ Len(Value.init_args) = 1
    /\ last.call.outcome = "returned"
    /\ last.call.args = <<Ref(last.obj)>>

\* C6: two values of one sum type are equal exactly when the same constructor
\* built them from elementwise equal arguments; values of two different
\* constructors are never equal, whatever their fields, and any two values of
\* one nullary constructor are equal.
C6_EqualityIsStructural ==
    (last.op = "eq" /\ heap[last.a].cls.base = heap[last.b].cls.base) =>
        LET a == heap[last.a]
            b == heap[last.b]
        IN  /\ last.result <=>
                    /\ a.cls.name = b.cls.name
                    /\ Len(a.init_args) = Len(b.init_args)
                    /\ \A i \in DOMAIN a.init_args : a.init_args[i] = b.init_args[i]
            /\ a.cls.name # b.cls.name => ~last.result
            /\ (a.cls.name = b.cls.name /\ a.init_args = <<>>) => last.result

C6_Witness ==
    /\ last.op = "eq"
    /\ last.a # last.b
    /\ heap[last.a].cls.name # heap[last.b].cls.name
    /\ heap[last.a].init_args = heap[last.b].init_args
    /\ heap[last.a].init_args # <<>>
    /\ ~last.result

\* C7: for a sum type declared with frozen=True, equal values have equal
\* hashes, so a mapping keyed by a value is found by any equal value, and a
\* value of one nullary constructor is not found under a key of another.
C7_FrozenValuesAreKeys ==
    (last.op = "lookup" /\ registry["T"].declared
        /\ \A c \in DOMAIN registry["T"].ctors : registry["T"].ctors[c].frozen) =>
        LET key == heap[last.a]
            probe == heap[last.b]
        IN  /\ last.outcome = "looked up"
            /\ (key.cls = probe.cls /\ key.init_args = probe.init_args) =>
                    (last.hash_key = last.hash_probe /\ last.found)
            /\ (key.cls.name # probe.cls.name
                    /\ key.init_args = <<>> /\ probe.init_args = <<>>) =>
                    ~last.found

C7_Witness ==
    /\ last.op = "lookup" /\ last.outcome = "looked up"
    /\ last.a # last.b
    /\ ClassOf(heap[last.a]).frozen
    /\ heap[last.a].cls = heap[last.b].cls
    /\ heap[last.a].init_args = heap[last.b].init_args
    /\ heap[last.a].init_args # <<>>
    /\ last.found

C9_MixedSpecIsRejected ==
    (last.op = "sumtype" /\ last.mixes) =>
        /\ last.outcome = "TypeError"
        /\ registry[last.type] = NotDeclared

C9_Witness ==
    /\ last.op = "sumtype" /\ last.mixes
    /\ last.outcome = "TypeError"
    /\ registry[last.type] = NotDeclared

\* what the class name of a value and the methods of the class select
Selected(klass, name) ==
    IF name \in klass THEN name
    ELSE IF Default \in klass THEN Default
    ELSE None

\* C10 as it is written: the dispatch function selects the handler from the
\* class name of the value and the methods of the class alone, and a value of
\* any type reaches the method _ when there is one.
C10_AnyValueReachesDefault ==
    Ran =>
        /\ Selected(matcher.klass, CName) # None =>
                /\ last.call.outcome = "returned"
                /\ last.call.handler = Selected(matcher.klass, CName)
        /\ (CName \notin matcher.klass /\ Default \in matcher.klass) =>
                /\ last.call.outcome = "returned"
                /\ last.call.handler = Default

\* C10, amended: on a value of a constructor type of any sum type, the
\* dispatch function selects the handler from the class name of the value and
\* the methods of the class alone, whatever sum type match or match_partial
\* was given: values whose classes share a name go to the same handler, and
\* any such value reaches the method _ when there is one and no method has
\* its class name.  A value that is of no constructor type raises
\* AttributeError before any handler is looked up.
C10_DispatchIsByClassName ==
    Ran =>
        IF IsVariant(Value)
        THEN /\ Selected(matcher.klass, CName) # None =>
                    /\ last.call.outcome = "returned"
                    /\ last.call.handler = Selected(matcher.klass, CName)
             /\ Selected(matcher.klass, CName) = None =>
                    last.call.outcome = "PartialMatchError"
        ELSE last.call.outcome = "AttributeError"

C10_Witness ==
    /\ Ran /\ IsVariant(Value)
    /\ Value.cls.base # matcher.adt
    /\ CName \notin DeclaredNames(matcher.adt)
    /\ last.call.outcome = "returned"
    /\ last.call.handler = CName

====
